---- MODULE Spec2Model ----
(***************************************************************************)
(* WildBot (src/bot.py): the taxon search, the tiered taxon resolver, the  *)
(* random observation picker and the three command handlers that use them. *)
(*                                                                         *)
(* Text that the code lower-cases or searches (animal names, scientific    *)
(* names, common names) is a sequence of one-character strings, so that    *)
(* str.lower() and the `in` substring test are computed.  Labels that the  *)
(* code only compares for equality (iconic group, rank, ids) are strings.  *)
(* A Python dict is a record; a key the dict lacks is a field the record   *)
(* lacks.                                                                  *)
(***************************************************************************)
EXTENDS Naturals, Sequences, FiniteSets, TLC

VARIABLES
    call,        \* SpecCalls: the function under call, its arguments, the upstream response
    ret,         \* SpecCalls: what the call returned (or raised)
    tiers,       \* SpecCalls: the ranking tiers find_best_taxon_id evaluated
    searched,    \* SpecCalls: what search_taxa gave find_best_taxon_id
    passes,      \* SpecCalls: the outputs of successive runs of the iconic-group filter
    pc,          \* Spec: per invocation, the handler's position
    cmd,         \* Spec: per invocation, the command
    arg,         \* Spec: per invocation, the animal name
    taxa_http,   \* Spec: per invocation, the taxa endpoint's response
    obs_http,    \* Spec: per invocation, the observations endpoint's response
    taxon_id,    \* Spec: per invocation, find_best_taxon_id's outcome
    help_results, \* Spec: per invocation, what search_taxa gave taxon_help
    observation, \* Spec: per invocation, get_random_observation's outcome
    calls,       \* Spec: per invocation, the upstream calls made, in order
    sent         \* Spec: per invocation, the messages sent to the channel, in order

vars == <<call, ret, tiers, searched, passes, pc, cmd, arg, taxa_http, obs_http,
          taxon_id, help_results, observation, calls, sent>>

callVars == <<call, ret, tiers, searched, passes>>
botVars == <<pc, cmd, arg, taxa_http, obs_http, taxon_id, help_results, observation, calls, sent>>

----------------------------------------------------------------------------
(* Bounds of the model *)

MaxResults == 3
MaxLimit == 3
MaxPage == 2
MaxPasses == 2
MaxBotResults == 2
NumInvocations == 2

(* Program constants *)

ResolverLimit == 20
HelpLimit == 10

----------------------------------------------------------------------------
(* Python values *)

None == [kind |-> "None"]
Some(v) == [kind |-> "value", value |-> v]
Raise(e) == [kind |-> "raise", exc |-> e]
Pending == [kind |-> "pending"]

Get(d, key, default) == IF key \in DOMAIN d THEN d[key] ELSE default

LowerChar(c) ==
    CASE c = "A" -> "a" [] c = "B" -> "b" [] c = "C" -> "c" [] c = "D" -> "d"
      [] c = "E" -> "e" [] c = "F" -> "f" [] c = "G" -> "g" [] c = "H" -> "h"
      [] c = "I" -> "i" [] c = "J" -> "j" [] c = "K" -> "k" [] c = "L" -> "l"
      [] c = "M" -> "m" [] c = "N" -> "n" [] c = "O" -> "o" [] c = "P" -> "p"
      [] c = "Q" -> "q" [] c = "R" -> "r" [] c = "S" -> "s" [] c = "T" -> "t"
      [] c = "U" -> "u" [] c = "V" -> "v" [] c = "W" -> "w" [] c = "X" -> "x"
      [] c = "Y" -> "y" [] c = "Z" -> "z"
      [] OTHER -> c

lower(s) == [i \in 1..Len(s) |-> LowerChar(s[i])]

Contains(sub, s) ==
    \E k \in 0..(Len(s) - Len(sub)) : SubSeq(s, k + 1, k + Len(sub)) = sub

Min(a, b) == IF a <= b THEN a ELSE b

Slice(s, n) == SubSeq(s, 1, Min(n, Len(s)))

----------------------------------------------------------------------------
(* search_taxa *)

\* What `except requests.exceptions.RequestException` catches: a timeout, a
\* connection error, raise_for_status() on a non-2xx status, and response.json()
\* on an undecodable body (requests' JSONDecodeError is a RequestException).
RequestExceptions == {"timeout", "connection_error", "http_error", "bad_json"}

ExcludedIconicTaxa == {"Plantae", "Fungi", "Chromista", "Protozoa"}

IsAnimalResultStrict(taxon) ==
    /\ "iconic_taxon_name" \in DOMAIN taxon
    /\ taxon.iconic_taxon_name \notin ExcludedIconicTaxa

IsAnimalResult(taxon) ==
    Get(taxon, "iconic_taxon_name", "") \notin ExcludedIconicTaxa

RECURSIVE RemoveWhileIterating(_, _)
RemoveWhileIterating(results, i) ==
    IF i > Len(results) THEN results
    ELSE IF IsAnimalResult(results[i]) THEN RemoveWhileIterating(results, i + 1)
    ELSE RemoveWhileIterating(
             SubSeq(results, 1, i - 1) \o SubSeq(results, i + 1, Len(results)), i + 1)

FilterInPlace(results) == RemoveWhileIterating(results, 1)

FilterAnimals(results) == SelectSeq(results, IsAnimalResult)

search_taxa(response, limit) ==
    IF response.kind \in RequestExceptions THEN Some(<<>>)
    ELSE LET data == response.body IN
         IF "total_results" \notin DOMAIN data THEN Raise("KeyError")
         ELSE IF data.total_results = 0 THEN Some(<<>>)
         ELSE IF "results" \notin DOMAIN data THEN Raise("KeyError")
         ELSE Some(Slice(FilterAnimals(data.results), limit))

----------------------------------------------------------------------------
(* find_best_taxon_id *)

NoResultsOrOne(results) == Len(results) <= 1

NoResults(results) == results = <<>>

CommonNameMatchesCased(animal_name_lower, taxon) ==
    Get(taxon, "preferred_common_name", <<>>) = animal_name_lower

CommonNameMatches(animal_name_lower, taxon) ==
    lower(Get(taxon, "preferred_common_name", <<>>)) = animal_name_lower

ScientificNameMatchesCased(animal_name_lower, taxon) ==
    taxon.name = animal_name_lower

ScientificNameMatches(animal_name_lower, taxon) ==
    lower(taxon.name) = animal_name_lower

PartialCommonNameMatches(animal_name_lower, taxon) ==
    Contains(animal_name_lower, lower(Get(taxon, "preferred_common_name", <<>>)))

FirstPartialOthersFirst(species_matches, other_matches) ==
    IF other_matches # <<>> THEN Some(other_matches[1])
    ELSE IF species_matches # <<>> THEN Some(species_matches[1])
    ELSE None

FirstPartial(species_matches, other_matches) ==
    IF species_matches # <<>> THEN Some(species_matches[1])
    ELSE IF other_matches # <<>> THEN Some(other_matches[1])
    ELSE None

LastResult(results) == results[Len(results)]

FirstResult(results) == results[1]

\* The taxon the four tiers pick from a non-empty candidate list, and the
\* tier that picked it (1, 2, 3 or the fallback 4).
RankTaxa(animal_name, results) ==
    LET animal_name_lower == lower(animal_name)
        exact_common ==
            SelectSeq(results, LAMBDA t : CommonNameMatches(animal_name_lower, t))
        exact_scientific ==
            SelectSeq(results, LAMBDA t : ScientificNameMatches(animal_name_lower, t))
        species_matches ==
            SelectSeq(results, LAMBDA t :
                /\ PartialCommonNameMatches(animal_name_lower, t)
                /\ t.rank = "species")
        other_matches ==
            SelectSeq(results, LAMBDA t :
                /\ PartialCommonNameMatches(animal_name_lower, t)
                /\ t.rank # "species")
        partial == FirstPartial(species_matches, other_matches)
    IN  IF exact_common # <<>> THEN [taxon |-> exact_common[1], tier |-> 1]
        ELSE IF exact_scientific # <<>> THEN [taxon |-> exact_scientific[1], tier |-> 2]
        ELSE IF partial # None THEN [taxon |-> partial.value, tier |-> 3]
        ELSE [taxon |-> FirstResult(results), tier |-> 4]

find_best_taxon_id(animal_name, response) ==
    LET found == search_taxa(response, ResolverLimit) IN
    IF found.kind = "raise" THEN found
    ELSE IF NoResults(found.value) THEN None
    ELSE Some(RankTaxa(animal_name, found.value).taxon.id)

\* The tiers find_best_taxon_id runs through before it returns.
TiersEvaluated(animal_name, response) ==
    LET found == search_taxa(response, ResolverLimit) IN
    IF found.kind = "raise" \/ NoResults(found.value) THEN {}
    ELSE 1..RankTaxa(animal_name, found.value).tier

----------------------------------------------------------------------------
(* get_random_observation *)

FirstOnly(observations) == {observations[1]}

RandomChoice(observations) == {observations[i] : i \in 1..Len(observations)}

\* The set of outcomes of one call: random.choice makes it a set.
get_random_observation(response) ==
    IF response.kind \in RequestExceptions THEN {None}
    ELSE LET data == response.body IN
         IF "total_results" \notin DOMAIN data THEN {Raise("KeyError")}
         ELSE IF data.total_results = 0 THEN {None}
         ELSE IF "results" \notin DOMAIN data THEN {Raise("KeyError")}
         ELSE IF data.results = <<>> THEN {None}
         ELSE {Some(o) : o \in RandomChoice(data.results)}

----------------------------------------------------------------------------
(* The inputs: animal names, and what the two upstream endpoints may answer *)

CervusGenus ==
    [name |-> <<"C", "e", "r", "v", "u", "s">>,
     preferred_common_name |-> <<"D", "e", "e", "r">>,
     rank |-> "genus",
     iconic_taxon_name |-> "Mammalia"]

RedDeer ==
    [name |-> <<"C", "e", "r", "v", "u", "s", " ", "e", "l", "a", "p", "h", "u", "s">>,
     preferred_common_name |-> <<"R", "e", "d", " ", "D", "e", "e", "r">>,
     rank |-> "species",
     iconic_taxon_name |-> "Mammalia"]

TrueDeer ==
    [name |-> <<"C", "e", "r", "v", "i", "n", "i">>,
     preferred_common_name |-> <<"T", "r", "u", "e", " ", "D", "e", "e", "r">>,
     rank |-> "tribe",
     iconic_taxon_name |-> "Mammalia"]

NamedDeer ==
    [name |-> <<"D", "e", "e", "r">>,
     rank |-> "genus"]

HoneyBee ==
    [name |-> <<"A", "p", "i", "s">>,
     preferred_common_name |-> <<"B", "e", "e">>,
     rank |-> "species",
     iconic_taxon_name |-> "Insecta"]

RoeDeer ==
    [name |-> <<"C", "a", "p", "r", "e", "o", "l", "u", "s">>,
     preferred_common_name |-> <<"R", "o", "e", " ", "d", "e", "e", "r">>,
     rank |-> "species"]

DeerFern ==
    [name |-> <<"S", "t", "r", "u", "t", "h", "i", "o", "p", "t", "e", "r", "i", "s">>,
     preferred_common_name |-> <<"d", "e", "e", "r">>,
     rank |-> "species",
     iconic_taxon_name |-> "Plantae"]

DeerCap ==
    [name |-> <<"P", "l", "u", "t", "e", "u", "s">>,
     preferred_common_name |-> <<"D", "e", "e", "r", " ", "C", "a", "p">>,
     rank |-> "species",
     iconic_taxon_name |-> "Fungi"]

TaxonShapes ==
    {CervusGenus, RedDeer, TrueDeer, NamedDeer, HoneyBee, RoeDeer, DeerFern, DeerCap}

BotTaxonShapes == {CervusGenus, DeerFern}

AnimalNames == {<<"d", "e", "e", "r">>, <<"D", "e", "e", "r">>, <<"C", "e", "r", "v", "u", "s">>}

BotAnimalNames == {<<"D", "e", "e", "r">>}

DeerName == <<"d", "e", "e", "r">>

SeqsUpTo(S, n) == UNION {[1..k -> S] : k \in 0..n}

\* The upstream gives every result of a page its own id.
WithIds(shapes) == [i \in 1..Len(shapes) |-> ("id" :> ToString(i)) @@ shapes[i]]

TaxaPages(shapes, n) == {WithIds(s) : s \in SeqsUpTo(shapes, n)}

ObservationPages(n) == {[i \in 1..k |-> [id |-> ToString(i)]] : k \in 0..n}

\* A response: the request fails (timeout, connection error, non-2xx status,
\* undecodable body), or it carries a decoded JSON body.  A body may lack a field.
FailedResponses ==
    {[kind |-> k] : k \in RequestExceptions}
    \cup {[kind |-> "ok", body |-> [results |-> r]] : r \in {<<>>}}
    \cup {[kind |-> "ok", body |-> [total_results |-> n]] : n \in {0, 1}}

OkResponses(page) ==
    {[kind |-> "ok", body |-> [total_results |-> n, results |-> page]] :
        n \in {0, Len(page)}}

Responses(pages) == FailedResponses \cup UNION {OkResponses(p) : p \in pages}

NoResponse == [kind |-> "none"]

----------------------------------------------------------------------------
(* SpecCalls: one call of one function, on every input of the bounded sets *)

Idle == [fn |-> "none"]

TaxaCalls(r) ==
    {[fn |-> "search_taxa", limit |-> l, response |-> r] : l \in 1..MaxLimit}
    \cup {[fn |-> "find_best_taxon_id", animal_name |-> a, response |-> r] :
             a \in AnimalNames}

CallInputs ==
    \/ \E r \in FailedResponses : call \in TaxaCalls(r)
    \/ \E k \in 0..MaxResults : \E s \in [1..k -> TaxonShapes] :
          \/ \E r \in OkResponses(WithIds(s)) : call \in TaxaCalls(r)
          \/ call = [fn |-> "filter", results |-> WithIds(s)]
    \/ \E r \in Responses(ObservationPages(MaxPage)) :
          call = [fn |-> "get_random_observation", response |-> r]

BotIdle ==
    /\ pc = [i \in 1..NumInvocations |-> "idle"]
    /\ cmd = [i \in 1..NumInvocations |-> "none"]
    /\ arg = [i \in 1..NumInvocations |-> <<>>]
    /\ taxa_http = [i \in 1..NumInvocations |-> NoResponse]
    /\ obs_http = [i \in 1..NumInvocations |-> NoResponse]
    /\ taxon_id = [i \in 1..NumInvocations |-> Pending]
    /\ help_results = [i \in 1..NumInvocations |-> Pending]
    /\ observation = [i \in 1..NumInvocations |-> Pending]
    /\ calls = [i \in 1..NumInvocations |-> <<>>]
    /\ sent = [i \in 1..NumInvocations |-> <<>>]

InitCalls ==
    /\ CallInputs
    /\ ret = Pending
    /\ tiers = {}
    /\ searched = Pending
    /\ passes = <<>>
    /\ BotIdle

SearchTaxaCall ==
    /\ call.fn = "search_taxa"
    /\ ret = Pending
    /\ ret' = search_taxa(call.response, call.limit)
    /\ UNCHANGED <<call, tiers, searched, passes>>
    /\ UNCHANGED botVars

FindBestTaxonIdCall ==
    /\ call.fn = "find_best_taxon_id"
    /\ ret = Pending
    /\ ret' = find_best_taxon_id(call.animal_name, call.response)
    /\ tiers' = TiersEvaluated(call.animal_name, call.response)
    /\ searched' = search_taxa(call.response, ResolverLimit)
    /\ UNCHANGED <<call, passes>>
    /\ UNCHANGED botVars

\* The loop of search_taxa over a list of taxa, run on its own output.
FilterPass ==
    /\ call.fn = "filter"
    /\ Len(passes) < MaxPasses
    /\ passes' = Append(passes,
           FilterAnimals(IF passes = <<>> THEN call.results ELSE passes[Len(passes)]))
    /\ UNCHANGED <<call, ret, tiers, searched>>
    /\ UNCHANGED botVars

GetRandomObservationCall ==
    /\ call.fn = "get_random_observation"
    /\ ret = Pending
    /\ ret' \in get_random_observation(call.response)
    /\ UNCHANGED <<call, tiers, searched, passes>>
    /\ UNCHANGED botVars

NextCalls ==
    \/ SearchTaxaCall
    \/ FindBestTaxonIdCall
    \/ FilterPass
    \/ GetRandomObservationCall

SpecCalls == InitCalls /\ [][NextCalls]_vars

----------------------------------------------------------------------------
(* Claims about find_best_taxon_id, checked under SpecCalls *)

Resolved == call.fn = "find_best_taxon_id" /\ ret # Pending /\ searched.kind = "value"

Candidates == searched.value

EqualsIgnoringCase(a, b) == lower(a) = lower(b)

ExactCommonAt(i) ==
    /\ "preferred_common_name" \in DOMAIN Candidates[i]
    /\ EqualsIgnoringCase(Candidates[i].preferred_common_name, call.animal_name)

ExactScientificAt(i) == EqualsIgnoringCase(Candidates[i].name, call.animal_name)

PartialAt(i) ==
    /\ "preferred_common_name" \in DOMAIN Candidates[i]
    /\ Contains(lower(call.animal_name), lower(Candidates[i].preferred_common_name))

SpeciesPartialAt(i) == PartialAt(i) /\ Candidates[i].rank = "species"

OtherPartialAt(i) == PartialAt(i) /\ Candidates[i].rank # "species"

Least(S) == CHOOSE i \in S : \A j \in S : i <= j

ExactCommonIdx == {i \in DOMAIN Candidates : ExactCommonAt(i)}
ExactScientificIdx == {i \in DOMAIN Candidates : ExactScientificAt(i)}
SpeciesPartialIdx == {i \in DOMAIN Candidates : SpeciesPartialAt(i)}
OtherPartialIdx == {i \in DOMAIN Candidates : OtherPartialAt(i)}

\* C1: when some candidate's preferred common name equals the input ignoring
\* case, find_best_taxon_id returns the id of the first such candidate, whatever
\* else the list holds (exact scientific-name matches, species-rank partial
\* matches, before or after it).
C1_ExactCommonNameWins ==
    (Resolved /\ ExactCommonIdx # {})
        => ret = Some(Candidates[Least(ExactCommonIdx)].id)

\* C1 witness: the first exact common-name match is not the first candidate, and
\* an exact scientific-name match and a species-rank partial match precede it.
C1_Witness ==
    /\ Resolved
    /\ ExactCommonIdx # {}
    /\ \E j \in ExactScientificIdx : j < Least(ExactCommonIdx)
    /\ \E j \in SpeciesPartialIdx : j < Least(ExactCommonIdx) /\ ~ExactCommonAt(j)
    /\ ret = Some(Candidates[Least(ExactCommonIdx)].id)

\* C2 as stated: whenever a species-rank partial match exists, the id returned
\* is that of the first species-rank partial match.
C2_SpeciesPartialAlwaysReturned ==
    (Resolved /\ SpeciesPartialIdx # {})
        => ret = Some(Candidates[Least(SpeciesPartialIdx)].id)

\* C2 amended: when no candidate matches the input exactly by common name or by
\* scientific name and a species-rank partial match exists, the id returned is
\* that of the first species-rank partial match, wherever the non-species
\* partial matches sit.
C2_SpeciesPartialPreferred ==
    (Resolved /\ ExactCommonIdx = {} /\ ExactScientificIdx = {} /\ SpeciesPartialIdx # {})
        => ret = Some(Candidates[Least(SpeciesPartialIdx)].id)

\* C2 witness: a non-species partial match precedes the first species-rank
\* partial match, nothing matches exactly, and the species-rank one is returned.
C2_Witness ==
    /\ Resolved
    /\ ExactCommonIdx = {} /\ ExactScientificIdx = {}
    /\ SpeciesPartialIdx # {}
    /\ \E j \in OtherPartialIdx : j < Least(SpeciesPartialIdx)
    /\ ret = Some(Candidates[Least(SpeciesPartialIdx)].id)

\* C3: when no candidate's common name equals the input ignoring case and some
\* candidate's scientific name does, the id returned is that of the first
\* candidate whose scientific name equals the input, even after an earlier
\* species-rank partial match and across candidates with no common name.
C3_ExactScientificNameNext ==
    (Resolved /\ ExactCommonIdx = {} /\ ExactScientificIdx # {})
        => ret = Some(Candidates[Least(ExactScientificIdx)].id)

\* C3 witness: a species-rank partial match precedes the scientific-name match,
\* which has no common name and differs from the input in case.
C3_Witness ==
    /\ Resolved
    /\ ExactCommonIdx = {} /\ ExactScientificIdx # {}
    /\ \E j \in SpeciesPartialIdx : j < Least(ExactScientificIdx)
    /\ "preferred_common_name" \notin DOMAIN Candidates[Least(ExactScientificIdx)]
    /\ Candidates[Least(ExactScientificIdx)].name # call.animal_name
    /\ ret = Some(Candidates[Least(ExactScientificIdx)].id)

\* C4: when the search returns no candidate, find_best_taxon_id returns None
\* and evaluates no ranking tier; when it returns candidates, the result is
\* never None.
C4_NoneIffNoCandidates ==
    Resolved =>
        /\ Candidates = <<>> => (ret = None /\ tiers = {})
        /\ Candidates # <<>> => (ret.kind = "value" /\ tiers # {})

\* C4 witness: the upstream answered with results, every one of them was
\* filtered out, and the resolver returned None.
C4_Witness ==
    /\ Resolved
    /\ call.response.kind = "ok"
    /\ DOMAIN call.response.body = {"total_results", "results"}
    /\ call.response.body.total_results > 1
    /\ Candidates = <<>>
    /\ ret = None

\* C5: when no candidate matches by exact common name, exact scientific name or
\* partial common name, the id of the first candidate is returned; and the id
\* returned is always the id of some candidate.
C5_FallbackFirstCandidate ==
    (Resolved /\ Candidates # <<>>) =>
        /\ (ExactCommonIdx = {} /\ ExactScientificIdx = {}
               /\ SpeciesPartialIdx = {} /\ OtherPartialIdx = {})
             => ret = Some(Candidates[1].id)
        /\ \E i \in DOMAIN Candidates : ret = Some(Candidates[i].id)

\* C5 witness: several candidates, none matching in any tier, the first returned.
C5_Witness ==
    /\ Resolved
    /\ Len(Candidates) > 1
    /\ ExactCommonIdx = {} /\ ExactScientificIdx = {}
    /\ SpeciesPartialIdx = {} /\ OtherPartialIdx = {}
    /\ tiers = 1..4
    /\ ret = Some(Candidates[1].id)

----------------------------------------------------------------------------
(* Claims about search_taxa and its filter, checked under SpecCalls *)

Searched ==
    /\ call.fn = "search_taxa"
    /\ ret # Pending
    /\ call.response.kind = "ok"
    /\ "total_results" \in DOMAIN call.response.body

Upstream == call.response.body.results

\* The positions of the upstream results that are not of an excluded group
\* (a result with no group label is not of an excluded group).
KeptIdx ==
    {i \in DOMAIN Upstream :
        ~ \E g \in {"Plantae", "Fungi", "Chromista", "Protozoa"} :
            /\ "iconic_taxon_name" \in DOMAIN Upstream[i]
            /\ Upstream[i].iconic_taxon_name = g}

NthKept(j) == CHOOSE i \in KeptIdx : Cardinality({k \in KeptIdx : k <= i}) = j

\* C7: search_taxa returns the upstream results that are not of an excluded
\* iconic group, in upstream order, cut to the first `limit`; results with no
\* group label are kept; the result is empty when the upstream total is zero.
C7_FilteredPrefix ==
    Searched =>
        /\ call.response.body.total_results = 0 => ret = Some(<<>>)
        /\ (call.response.body.total_results # 0
               /\ "results" \in DOMAIN call.response.body) =>
             /\ ret.kind = "value"
             /\ Len(ret.value) = Min(call.limit, Cardinality(KeptIdx))
             /\ \A j \in 1..Len(ret.value) : ret.value[j] = Upstream[NthKept(j)]

\* C7 witness: an excluded result was dropped, a result with no group label was
\* kept, and the limit cut a kept result off.
C7_Witness ==
    /\ Searched
    /\ call.response.body.total_results # 0
    /\ "results" \in DOMAIN call.response.body
    /\ Cardinality(KeptIdx) < Len(Upstream)
    /\ Len(ret.value) = call.limit
    /\ call.limit < Cardinality(KeptIdx)
    /\ \E j \in 1..Len(ret.value) : "iconic_taxon_name" \notin DOMAIN ret.value[j]

\* C8: the filter run on its own output gives that output again, in the same
\* order.
C8_FilterIdempotent ==
    call.fn = "filter" => \A k \in 2..Len(passes) : passes[k] = passes[1]

\* C8 witness: the first run dropped a result and kept others, one of them with
\* no group label, and a second run was made.
C8_Witness ==
    /\ call.fn = "filter"
    /\ Len(passes) >= 2
    /\ passes[1] # call.results
    /\ \E j \in DOMAIN passes[1] : "iconic_taxon_name" \notin DOMAIN passes[1][j]
    /\ \E j \in DOMAIN passes[1] : "iconic_taxon_name" \in DOMAIN passes[1][j]
    /\ passes[2] = passes[1]

----------------------------------------------------------------------------
(* Claims about get_random_observation, checked under SpecCalls *)

Reported ==
    /\ call.fn = "get_random_observation"
    /\ call.response.kind = "ok"
    /\ "total_results" \in DOMAIN call.response.body

NonEmptyPage ==
    /\ Reported
    /\ call.response.body.total_results # 0
    /\ "results" \in DOMAIN call.response.body
    /\ call.response.body.results # <<>>

Page == call.response.body.results

----------------------------------------------------------------------------
(* Spec: the command handlers, one invocation per user, interleaved *)

Invocations == 1..NumInvocations

BotTaxaResponses == Responses(TaxaPages(BotTaxonShapes, MaxBotResults))

BotObsResponses == Responses(ObservationPages(MaxPage))

Text(what) == [type |-> "text", what |-> what]
Embed(what) == [type |-> "embed", what |-> what]

Init ==
    /\ call = Idle
    /\ ret = Pending
    /\ tiers = {}
    /\ searched = Pending
    /\ passes = <<>>
    /\ BotIdle

\* The framework hands a command to its handler.
Dispatch(i) ==
    /\ pc[i] = "idle"
    /\ \E c \in {"animal", "taxonhelp", "deer"} :
          /\ cmd' = [cmd EXCEPT ![i] = c]
          /\ \E a \in (IF c = "deer" THEN {DeerName} ELSE BotAnimalNames) :
                arg' = [arg EXCEPT ![i] = a]
    /\ pc' = [pc EXCEPT ![i] = "invoked"]
    /\ UNCHANGED <<taxa_http, obs_http, taxon_id, help_results, observation, calls, sent>>
    /\ UNCHANGED callVars

\* await ctx.send("... Searching ...")
SendSearching(i) ==
    /\ pc[i] = "invoked"
    /\ sent' = [sent EXCEPT ![i] = Append(@, Text("searching"))]
    /\ pc' = [pc EXCEPT ![i] = "searching"]
    /\ UNCHANGED <<cmd, arg, taxa_http, obs_http, taxon_id, help_results, observation, calls>>
    /\ UNCHANGED callVars

\* random_animal, random_deer: taxon_id = find_best_taxon_id(animal_name)
ResolveTaxon(i) ==
    /\ pc[i] = "searching"
    /\ cmd[i] \in {"animal", "deer"}
    /\ \E r \in BotTaxaResponses :
          LET out == find_best_taxon_id(arg[i], r) IN
          /\ calls' = [calls EXCEPT ![i] = Append(@, "taxa")]
          /\ taxa_http' = [taxa_http EXCEPT ![i] = r]
          /\ taxon_id' = [taxon_id EXCEPT ![i] = out]
          /\ pc' = [pc EXCEPT ![i] =
                IF out.kind = "raise" THEN "raised"
                ELSE IF out = None THEN "not_found"
                ELSE "resolved"]
    /\ UNCHANGED <<cmd, arg, obs_http, help_results, observation, sent>>
    /\ UNCHANGED callVars

\* random_animal, random_deer: observation = get_random_observation(taxon_id)
PickObservation(i) ==
    /\ pc[i] = "resolved"
    /\ \E r \in BotObsResponses :
          \E out \in get_random_observation(r) :
          /\ calls' = [calls EXCEPT ![i] = Append(@, "observations")]
          /\ obs_http' = [obs_http EXCEPT ![i] = r]
          /\ observation' = [observation EXCEPT ![i] = out]
          /\ pc' = [pc EXCEPT ![i] =
                IF out.kind = "raise" THEN "raised"
                ELSE IF out = None THEN "no_sightings"
                ELSE "picked"]
    /\ UNCHANGED <<cmd, arg, taxa_http, taxon_id, help_results, sent>>
    /\ UNCHANGED callVars

\* taxon_help: animal_results = search_taxa(animal_name, limit=10)
SearchForHelp(i) ==
    /\ pc[i] = "searching"
    /\ cmd[i] = "taxonhelp"
    /\ \E r \in BotTaxaResponses :
          LET out == search_taxa(r, HelpLimit) IN
          /\ calls' = [calls EXCEPT ![i] = Append(@, "taxa")]
          /\ taxa_http' = [taxa_http EXCEPT ![i] = r]
          /\ help_results' = [help_results EXCEPT ![i] = out]
          /\ pc' = [pc EXCEPT ![i] =
                IF out.kind = "raise" THEN "raised"
                ELSE IF out.value = <<>> THEN "no_taxa"
                ELSE "listing"]
    /\ UNCHANGED <<cmd, arg, obs_http, taxon_id, observation, sent>>
    /\ UNCHANGED callVars

\* The handler's last await ctx.send(...), after which it returns.
FinalReply(at) ==
    CASE at = "not_found" -> Text("not_found")
      [] at = "no_sightings" -> Text("no_sightings")
      [] at = "picked" -> Embed("sighting")
      [] at = "no_taxa" -> Text("no_taxa")
      [] at = "listing" -> Embed("taxonomy")

SendReply(i) ==
    /\ pc[i] \in {"not_found", "no_sightings", "picked", "no_taxa", "listing"}
    /\ sent' = [sent EXCEPT ![i] = Append(@, FinalReply(pc[i]))]
    /\ pc' = [pc EXCEPT ![i] = "done"]
    /\ UNCHANGED <<cmd, arg, taxa_http, obs_http, taxon_id, help_results, observation, calls>>
    /\ UNCHANGED callVars

Next ==
    \E i \in Invocations :
        \/ Dispatch(i)
        \/ SendSearching(i)
        \/ ResolveTaxon(i)
        \/ PickObservation(i)
        \/ SearchForHelp(i)
        \/ SendReply(i)

Spec == Init /\ [][Next]_vars

----------------------------------------------------------------------------
(* Claims about the handlers, checked under Spec *)

FailedResponse(r) ==
    \/ r.kind \in {"timeout", "connection_error", "http_error", "bad_json"}
    \/ r.kind = "ok" /\ DOMAIN r.body # {"total_results", "results"}

\* C6: on a failed upstream call (timeout, non-2xx status, undecodable body, or
\* a decoded body that lacks the total count or the results) search_taxa returns
\* the empty sequence, find_best_taxon_id returns None, get_random_observation
\* returns None, and no exception reaches the command handler.
C6_FailuresAbsorbed ==
    \A i \in Invocations :
        /\ pc[i] # "raised"
        /\ (FailedResponse(taxa_http[i]) /\ cmd[i] = "taxonhelp")
              => help_results[i] = Some(<<>>)
        /\ (FailedResponse(taxa_http[i]) /\ cmd[i] \in {"animal", "deer"})
              => taxon_id[i] = None
        /\ FailedResponse(obs_http[i]) => observation[i] = None

Ended(i) == pc[i] \in {"done", "raised"}

FinalReplies(i) == SubSeq(sent[i], 2, Len(sent[i]))

\* C10: every invocation makes exactly one taxa-search call and at most one
\* observations call, the latter only after the search and only with a taxon
\* id; it ends with exactly one final reply: the not-found message when the
\* resolver returned None (and then no observations call), the no-sightings
\* message when the picker returned None, the sighting embed only when a taxon
\* id and an observation were both obtained.
C10_OneSearchOneFinalReply ==
    \A i \in Invocations :
        Ended(i) =>
            /\ calls[i] \in {<<"taxa">>, <<"taxa", "observations">>}
            /\ Len(calls[i]) = 2 => taxon_id[i].kind = "value"
            /\ Len(FinalReplies(i)) = 1
            /\ FinalReplies(i)[1] \in
                   {Text("not_found"), Text("no_sightings"), Embed("sighting")}
            /\ taxon_id[i] = None =>
                   (FinalReplies(i) = <<Text("not_found")>> /\ calls[i] = <<"taxa">>)
            /\ observation[i] = None => FinalReplies(i) = <<Text("no_sightings")>>
            /\ (\E k \in DOMAIN sent[i] : sent[i][k].type = "embed") =>
                   (taxon_id[i].kind = "value" /\ observation[i].kind = "value")

\* The part of C10 that holds of every invocation, whatever the upstream answers:
\* the order and number of the upstream calls, and at most one final reply.
CallDiscipline ==
    \A i \in Invocations :
        /\ calls[i] \in {<<>>, <<"taxa">>, <<"taxa", "observations">>}
        /\ Len(calls[i]) = 2 => (cmd[i] # "taxonhelp" /\ taxon_id[i].kind = "value")
        /\ Ended(i) => Len(calls[i]) >= 1
        /\ Len(FinalReplies(i)) <= 1
        /\ pc[i] = "done" => Len(FinalReplies(i)) = 1

====
